---- MODULE Spec2Model ----
(***************************************************************************)
(* The ingestion-and-consolidation pipeline of sourcerer                   *)
(* (cmd/sourcerer/main.go), the DuckDB record store (internal/storage),    *)
(* the eligibility predicates (internal/model) and the ABR enricher        *)
(* (internal/enrich).                                                      *)
(*                                                                         *)
(* Text is modelled as follows.  A source identifier and the `sources`     *)
(* column are sequences of one-character strings, so that strings.Join     *)
(* and SQL CONTAINS (substring search) are computed, not assumed.  An      *)
(* entity type is a sequence of words and substring search on it is word   *)
(* granular.  Names, state codes and words are atoms whose lower-case      *)
(* form is given by ToLower.  A date is [y, d]: year and day of the year;  *)
(* Go's zero time.Time is ZeroDate.                                        *)
(*                                                                         *)
(* Spec is one run of main on an empty leads table: the workers, the       *)
(* closer and the consumer interleave freely; a loop iteration is one      *)
(* step, since only the consumer touches the store and the counters.       *)
(* FairSpec adds the scheduling of the goroutines.  SpecStore is the       *)
(* repository's SaveLead called directly; SpecModel, SpecEnrich and        *)
(* SpecExport are one call of a Lead predicate, of Enrich and of ExportCSV *)
(* on arguments drawn from the fixtures, SpecDelete one delete request.    *)
(* What the sources, the registry and the database engine answer is        *)
(* chosen freely from the fixtures.                                        *)
(***************************************************************************)
EXTENDS Integers, Sequences, FiniteSets, TLC

\* ------------------------------------------------------------ bounds
MaxSources == 2
MaxLeads == 2
MaxCalls == 3
MaxTotal == 2

\* -------------------------------------------------- program constants
TargetAge == 15

\* ------------------------------------------------------------- text
ToLower(s) ==
  CASE s = "Acme Pty Ltd" -> "acme pty ltd"
    [] s = "ACME PTY LTD" -> "acme pty ltd"
    [] s = "Bolt Co" -> "bolt co"
    [] s = "VIC" -> "vic"
    [] s = "NSW" -> "nsw"
    [] s = "Australian" -> "australian"
    [] s = "Private" -> "private"
    [] s = "Public" -> "public"
    [] s = "Company" -> "company"
    [] s = "Proprietary" -> "proprietary"
    [] s = "Limited" -> "limited"
    [] s = "Discretionary" -> "discretionary"
    [] s = "Trading" -> "trading"
    [] s = "Trust" -> "trust"
    [] s = "PUBLIC" -> "public"
    [] s = "COMPANY" -> "company"
    [] s = "State" -> "state"
    [] s = "Government" -> "government"
    [] s = "Entity" -> "entity"
    [] s = "Sole" -> "sole"
    [] s = "Trader" -> "trader"
    [] s = "Individual" -> "individual"
    [] s = "Other" -> "other"
    [] s = "Incorporated" -> "incorporated"
    [] s = "Unknown" -> "unknown"
    [] OTHER -> s

ToUpper(s) ==
  CASE s = "vic" -> "VIC"
    [] s = "nsw" -> "NSW"
    [] s = "r" -> "R"
    [] s = "a" -> "A"
    [] OTHER -> s

LowerSeq(ws) == [k \in 1..Len(ws) |-> ToLower(ws[k])]

EqualFold(a, b) == ToLower(a) = ToLower(b)

\* strings.Contains / SQL CONTAINS: sub occurs in s as a contiguous run.
Contains(s, sub) ==
  \E k \in 0..(Len(s) - Len(sub)) : SubSeq(s, k + 1, k + Len(sub)) = sub

RECURSIVE Join(_)
Join(ts) ==
  IF ts = <<>> THEN <<>>
  ELSE IF Len(ts) = 1 THEN ts[1]
  ELSE ts[1] \o <<",">> \o Join(Tail(ts))

\* ------------------------------------------------------------- dates
ZeroDate == [y |-> 1, d |-> 1]
Today == [y |-> 2024, d |-> 100]
IsZero(t) == t = ZeroDate

\* ------------------------------------------------------- model.Lead
ZeroLead ==
  [ABN |-> "", Name |-> "", Category |-> "", Sources |-> <<>>,
   EntityType |-> <<>>, EntityStatus |-> "", State |-> "", Postcode |-> "",
   RegistrationDate |-> ZeroDate, IsGSTRegistered |-> FALSE,
   FoundAtURL |-> ""]

\* Variant of AgeYears: a negative difference is returned as it is.
AgeYearsNoClamp(l, now) ==
  LET years == now.y - l.RegistrationDate.y
      adj == IF now.d < l.RegistrationDate.d THEN years - 1 ELSE years
  IN IF IsZero(l.RegistrationDate) THEN 0 ELSE adj

AgeYears(l, now) ==
  LET years == now.y - l.RegistrationDate.y
      adj == IF now.d < l.RegistrationDate.d THEN years - 1 ELSE years
  IN IF IsZero(l.RegistrationDate) THEN 0
     ELSE IF adj < 0 THEN 0 ELSE adj

IsVeteran(l, minAge, now) == AgeYears(l, now) >= minAge

\* Variant of IsPrivateEntity: "trust" is not among the keywords.
IsPrivateEntityNoTrust(l) ==
  LET lowerType == LowerSeq(l.EntityType)
  IN ~ \/ Contains(lowerType, <<"public", "company">>)
       \/ Contains(lowerType, <<"government">>)
       \/ Contains(lowerType, <<"sole", "trader">>)
       \/ Contains(lowerType, <<"individual">>)
       \/ Contains(lowerType, <<"other", "incorporated", "entity">>)

IsPrivateEntity(l) ==
  LET lowerType == LowerSeq(l.EntityType)
  IN ~ \/ Contains(lowerType, <<"public", "company">>)
       \/ Contains(lowerType, <<"government">>)
       \/ Contains(lowerType, <<"sole", "trader">>)
       \/ Contains(lowerType, <<"individual">>)
       \/ Contains(lowerType, <<"other", "incorporated", "entity">>)
       \/ Contains(lowerType, <<"trust">>)

\* Variant of IsInvestable: the state is compared case-sensitively.
IsInvestableExact(l, allowedStates, allowedPostcodes) ==
  Len(allowedStates) > 0 =>
    \E k \in 1..Len(allowedStates) : l.State = allowedStates[k]

IsInvestable(l, allowedStates, allowedPostcodes) ==
  Len(allowedStates) > 0 =>
    \E k \in 1..Len(allowedStates) : EqualFold(l.State, allowedStates[k])

\* ------------------------------------------- storage.DuckDBRepo (leads)
\* The table is a set of rows; abn is its PRIMARY KEY.
Row(l, sourceStr, ts) ==
  [abn |-> l.ABN, name |-> l.Name, category |-> l.Category,
   sources |-> sourceStr, entity_type |-> l.EntityType,
   entity_status |-> l.EntityStatus, state |-> l.State,
   postcode |-> l.Postcode, registration_date |-> l.RegistrationDate,
   gst_registered |-> l.IsGSTRegistered, found_at_url |-> l.FoundAtURL,
   updated_at |-> ts]

\* SELECT abn, name, category, entity_type, state, registration_date,
\* gst_registered: the seven columns scanned into a fresh Lead.
Scan(r) ==
  [ZeroLead EXCEPT !.ABN = r.abn, !.Name = r.name, !.Category = r.category,
                   !.EntityType = r.entity_type, !.State = r.state,
                   !.RegistrationDate = r.registration_date,
                   !.IsGSTRegistered = r.gst_registered]

\* The leads a LIMIT 1 query without ORDER BY may return; {} is "no rows".
GetLeadByName(st, name) ==
  {Scan(r) : r \in {q \in st : ToLower(q.name) = ToLower(name)}}

\* Variant of MergeSources: the incoming string is appended unconditionally.
MergeSourcesAppend(old, new) == old \o <<",">> \o new

\* Variant of MergeSources: the incoming string replaces the stored one.
MergeSourcesReplace(old, new) == new

\* ON CONFLICT (abn) DO UPDATE SET sources = CASE WHEN CONTAINS(...) ...
MergeSources(old, new) ==
  IF Contains(old, new) THEN old ELSE old \o <<",">> \o new

\* Variant of SaveLead: the upsert also overwrites the stored name.
SaveLeadOverwrite(st, l, ts, fail) ==
  LET exists == \E r \in st : r.abn = l.ABN
      sourceStr == Join(l.Sources)
      upd(r) == [r EXCEPT !.sources = MergeSources(r.sources, sourceStr),
                          !.name = l.Name, !.updated_at = ts]
  IN [isNew |-> ~exists,
      err |-> fail,
      store |-> IF fail THEN st
                ELSE IF exists
                  THEN {IF r.abn = l.ABN THEN upd(r) ELSE r : r \in st}
                ELSE st \cup {Row(l, sourceStr, ts)}]

\* Variant of SaveLead: every call reports a new record.
SaveLeadAlwaysNew(st, l, ts, fail) ==
  LET exists == \E r \in st : r.abn = l.ABN
      sourceStr == Join(l.Sources)
      upd(r) == [r EXCEPT !.sources = MergeSources(r.sources, sourceStr),
                          !.updated_at = ts]
  IN [isNew |-> TRUE,
      err |-> fail,
      store |-> IF fail THEN st
                ELSE IF exists
                  THEN {IF r.abn = l.ABN THEN upd(r) ELSE r : r \in st}
                ELSE st \cup {Row(l, sourceStr, ts)}]

\* fail: the INSERT statement is rejected by the engine (err != nil).
SaveLead(st, l, ts, fail) ==
  LET exists == \E r \in st : r.abn = l.ABN
      sourceStr == Join(l.Sources)
      upd(r) == [r EXCEPT !.sources = MergeSources(r.sources, sourceStr),
                          !.updated_at = ts]
  IN [isNew |-> ~exists,
      err |-> fail,
      store |-> IF fail THEN st
                ELSE IF exists
                  THEN {IF r.abn = l.ABN THEN upd(r) ELSE r : r \in st}
                ELSE st \cup {Row(l, sourceStr, ts)}]

\* --------------------------------------------------- enrich.ABRClient
\* A response is [netErr, toks]: http.Get failing, or the start elements
\* of the body in document order.  A date string is EmptyStr (""), BadStr
\* (text time.Parse rejects) or a date; "0001-01-01" is ZeroDate.
EmptyStr == [y |-> 0, d |-> 0]
BadStr == [y |-> 0, d |-> 1]
ParseDate(str) == IF str \in {EmptyStr, BadStr} THEN ZeroDate ELSE str

\* The request Enrich sends: always SearchByABNv202001, searchString being
\* l.ABN without its spaces (the modelled ABNs hold none).
EnrichRequest(l) == [api |-> "SearchByABNv202001", searchString |-> l.ABN]

\* Variant of EnrichToken: statecode is decoded whatever l.State holds.
EnrichTokenOverwrite(l, t) ==
  CASE t.tag = "entitydescription" -> [l EXCEPT !.EntityType = t.val]
    [] t.tag = "entitystatuscode" -> [l EXCEPT !.EntityStatus = t.val]
    [] t.tag = "goodsandservicestax" ->
         IF t.from # EmptyStr /\ t.to = ZeroDate
           THEN [l EXCEPT !.IsGSTRegistered = TRUE] ELSE l
    [] t.tag = "effectivefrom" ->
         IF IsZero(l.RegistrationDate) /\ t.val # EmptyStr /\ t.val # ZeroDate
           THEN [l EXCEPT !.RegistrationDate = ParseDate(t.val)] ELSE l
    [] t.tag = "statecode" -> [l EXCEPT !.State = t.val]
    [] t.tag = "postcode" ->
         IF l.Postcode = "" THEN [l EXCEPT !.Postcode = t.val] ELSE l
    [] OTHER -> l

EnrichToken(l, t) ==
  CASE t.tag = "entitydescription" -> [l EXCEPT !.EntityType = t.val]
    [] t.tag = "entitystatuscode" -> [l EXCEPT !.EntityStatus = t.val]
    [] t.tag = "goodsandservicestax" ->
         IF t.from # EmptyStr /\ t.to = ZeroDate
           THEN [l EXCEPT !.IsGSTRegistered = TRUE] ELSE l
    [] t.tag = "effectivefrom" ->
         IF IsZero(l.RegistrationDate) /\ t.val # EmptyStr /\ t.val # ZeroDate
           THEN [l EXCEPT !.RegistrationDate = ParseDate(t.val)] ELSE l
    [] t.tag = "statecode" ->
         IF l.State = "" THEN [l EXCEPT !.State = t.val] ELSE l
    [] t.tag = "postcode" ->
         IF l.Postcode = "" THEN [l EXCEPT !.Postcode = t.val] ELSE l
    [] OTHER -> l

\* for { t, _ := decoder.Token(); ... }: the tokens applied in order.
RECURSIVE EnrichTokens(_, _)
EnrichTokens(l, toks) ==
  IF toks = <<>> THEN l
  ELSE CHOOSE r \in {EnrichTokens(m, Tail(toks)) :
                       m \in {EnrichToken(l, Head(toks))}} : TRUE

FoundData(toks) == \E k \in 1..Len(toks) : toks[k].tag = "entitydescription"

\* [lead, err]: the lead as Enrich leaves it, and whether it returned an error.
Enrich(l, resp) ==
  IF resp.netErr THEN [lead |-> l, err |-> TRUE]
  ELSE [lead |-> EnrichTokens(l, resp.toks), err |-> ~FoundData(resp.toks)]

\* ----------------------------------------------- ExportCSV (storage)
DateLE(a, b) == a.y < b.y \/ (a.y = b.y /\ a.d <= b.d)

\* time.Now().AddDate(-minAge, 0, 0)
Cutoff(now, minAge) == [y |-> now.y - minAge, d |-> now.d]

UpperSeq(cs) == [k \in 1..Len(cs) |-> ToUpper(cs[k])]

\* The rows the WHERE clause of ExportCSV keeps.
ExportRows(st, now, minAge, states, sources) ==
  {r \in st :
     /\ DateLE(r.registration_date, Cutoff(now, minAge))
     /\ r.gst_registered
     /\ ~Contains(LowerSeq(r.entity_type), <<"public", "company">>)
     /\ ~Contains(LowerSeq(r.entity_type), <<"government">>)
     /\ (Len(states) > 0 /\ states[1] # "") =>
          \E k \in 1..Len(states) : r.state = states[k]
     /\ (Len(sources) > 0 /\ sources[1] # <<>>) =>
          \E k \in 1..Len(sources) :
            Contains(UpperSeq(r.sources), UpperSeq(sources[k]))}

\* ORDER BY registration_date ASC: every order of the rows that is
\* ascending in registration_date (ties are in no defined order).
Ordered(rows) ==
  {sq \in [1..Cardinality(rows) -> rows] :
     /\ \A a, b \in 1..Cardinality(rows) : a # b => sq[a] # sq[b]
     /\ \A a, b \in 1..Cardinality(rows) :
          a < b => DateLE(sq[a].registration_date, sq[b].registration_date)}

\* ------------------------------------- DeleteLeadByFilters (storage)
\* filters is a map[string]interface{}: a function from the keys present
\* to values [t, v], t being the dynamic type the assertions test.
StrVal(v) == [t |-> "string", v |-> v]
IntVal(v) == [t |-> "int", v |-> v]

DateLT(a, b) == a.y < b.y \/ (a.y = b.y /\ a.d < b.d)

\* The conditions DeleteLeadByFilters appends, by the key they come from.
Conditions(filters) ==
  {k \in DOMAIN filters :
     \/ k = "name" /\ filters[k].t = "string"
     \/ k = "abn" /\ filters[k].t = "string"
     \/ k = "age" /\ filters[k].t = "int" /\ filters[k].v > 0
     \/ k = "source" /\ filters[k].t = "string" /\ filters[k].v # <<>>}

\* Whether row r satisfies the condition of key k.
Holds(r, k, filters, now) ==
  CASE k = "name" -> ToLower(r.name) = ToLower(filters[k].v)
    [] k = "abn" -> r.abn = filters[k].v
    [] k = "age" ->
         /\ DateLE(Cutoff(now, filters[k].v), r.registration_date)
         /\ DateLT(r.registration_date, Cutoff(now, filters[k].v - 1))
    [] k = "source" -> Contains(UpperSeq(r.sources), UpperSeq(filters[k].v))

\* Variant of DeleteLeadByFilters: the statement runs without conditions
\* too.
DeleteLeadByFiltersNoGuard(st, filters, now, fail) ==
  IF fail THEN [err |-> TRUE, store |-> st]
  ELSE [err |-> FALSE,
        store |-> {r \in st : ~ \A k \in Conditions(filters) :
                                   Holds(r, k, filters, now)}]

\* fail: the DELETE statement is rejected by the engine.
DeleteLeadByFilters(st, filters, now, fail) ==
  IF Conditions(filters) = {} THEN [err |-> TRUE, store |-> st]
  ELSE IF fail THEN [err |-> TRUE, store |-> st]
  ELSE [err |-> FALSE,
        store |-> {r \in st : ~ \A k \in Conditions(filters) :
                                   Holds(r, k, filters, now)}]

\* The delete command: flags is a function from the flags given on the
\* command line to their values (typed as flag.String and flag.Int
\* declare them), answer what is typed at the prompt,
\* trimmed and lower-cased.
FilterFlags == {"name", "abn", "age", "source", "entity-type"}

\* filters as the second flag.Visit builds it.
ToolFilters(flags) ==
  LET keys == {f \in DOMAIN flags \cap FilterFlags :
                 f = "age" => flags[f].v > 0}
      flagOf(k) == IF k = "entity_type" THEN "entity-type" ELSE k
      keyOf(f) == IF f = "entity-type" THEN "entity_type" ELSE f
  IN [k \in {keyOf(f) : f \in keys} |-> flags[flagOf(k)]]

\* [exit, store]: how the command ends and the table it leaves.
DeleteTool(st, flags, answer, now, fail) ==
  IF DOMAIN flags \cap FilterFlags = {} THEN [exit |-> "usage", store |-> st]
  ELSE IF answer \notin {"yes", "y"} THEN [exit |-> "cancelled", store |-> st]
  ELSE LET d == DeleteLeadByFilters(st, ToolFilters(flags), now, fail)
       IN [exit |-> IF d.err THEN "failed" ELSE "done", store |-> d.store]

\* ------------------------------------------------- the sources (fixtures)
\* Source k of the -sources flag reports leads tagged SourceTag(k).
TagChars == <<"R", "A", "S", "N", "B">>
SourceTag(k) == <<TagChars[k]>>

CandKinds == {"acme", "ACME", "bolt", "anon"}

\* What an adapter builds: the fields it observes, Sources = {its tag}.
Candidate(k, kind) ==
  LET base == [ZeroLead EXCEPT !.Category = "Manufacturing",
                               !.Sources = <<SourceTag(k)>>,
                               !.FoundAtURL = "url"]
  IN CASE kind = "acme" -> [base EXCEPT !.Name = "Acme Pty Ltd"]
       [] kind = "ACME" -> [base EXCEPT !.Name = "ACME PTY LTD",
                                        !.ABN = "11", !.State = "vic"]
       [] kind = "bolt" -> [base EXCEPT !.Name = "Bolt Co", !.ABN = "11"]
       [] OTHER -> [base EXCEPT !.ABN = "22"]

OldDate == [y |-> 2000, d |-> 50]
YoungDate == [y |-> 2009, d |-> 200]

Tok(tag, val) == [tag |-> tag, val |-> val]
GstTok(from, to) == [tag |-> "goodsandservicestax", from |-> from, to |-> to]

RespOf(type, date, gst, state) ==
  [netErr |-> FALSE,
   toks |-> <<Tok("entitystatuscode", "Active"),
              Tok("effectivefrom", date),
              Tok("entitydescription", type)>>
            \o (IF gst THEN <<GstTok(date, ZeroDate)>> ELSE <<>>)
            \o <<Tok("statecode", state), Tok("postcode", "3000")>>]

\* What the registry may answer to one SearchByABN request.
Responses ==
  {[netErr |-> TRUE, toks |-> <<>>],
   [netErr |-> FALSE, toks |-> <<>>],
   RespOf(<<"Australian", "Private", "Company">>, OldDate, TRUE, "VIC"),
   RespOf(<<"Australian", "Private", "Company">>, OldDate, TRUE, "NSW"),
   RespOf(<<"Australian", "Public", "Company">>, OldDate, TRUE, "VIC"),
   RespOf(<<"Australian", "Private", "Company">>, OldDate, FALSE, "VIC"),
   RespOf(<<"Australian", "Private", "Company">>, YoungDate, TRUE, "VIC")}

\* -states: not given (the default), or one state.
StateFilters == {<<>>, <<"VIC">>}

\* ------------------------------------------------ main (cmd/sourcerer)
VARIABLES
  mainpc,        \* where main() is
  nsrc,          \* len(sources)
  allowedStates, \* -states
  spawned,       \* workers started by the fan-out loop
  wpc,           \* where each worker goroutine is
  fetched,       \* what each worker's src.Fetch returned: [n, err]
  wg,            \* the WaitGroup counter
  closerpc,      \* where the goroutine that closes resultsChan is
  closed,        \* resultsChan is closed
  chan,          \* resultsChan's buffer
  cur,           \* the fetchResult the consumer is ranging over
  idx,           \* index of the lead in cur.leads
  store,         \* the leads table
  stats,         \* the run statistics
  exported,      \* what ExportCSV wrote
  processed,     \* history: per source, the indices of the leads processed
  enrichCalls,   \* history: number of Enricher.Enrich calls
  pre,           \* history: the state the last iteration started in
  outcome,       \* history: how the last iteration went
  presented,     \* history (SpecStore): per abn, the tags handed to SaveLead
  calls,         \* history (SpecStore): number of repository calls made
  input,         \* the arguments of the function called directly
  output         \* what the function called directly returned

vars ==
  <<mainpc, nsrc, allowedStates, spawned, wpc, fetched, wg, closerpc, closed,
    chan, cur, idx, store, stats, exported, processed,
    enrichCalls, pre, outcome, presented, calls, input, output>>

SourceIds == 1..MaxSources
ABNs == {"", "11", "22"}

ZeroStats ==
  [Found |-> 0, New |-> 0, Updated |-> 0, Skipped |-> 0, Selected |-> 0,
   Error |-> 0]

\* stats.incr
incr(s, field, n) ==
  IF field \in DOMAIN s THEN [s EXCEPT ![field] = @ + n] ELSE s

NoResult == [source |-> 0, n |-> 0, err |-> FALSE]
NoOutcome ==
  [kind |-> "none", source |-> 0, looked |-> FALSE, hit |-> FALSE,
   enriched |-> FALSE, lead |-> ZeroLead, isNew |-> FALSE]
NoPre ==
  [store |-> {}, stats |-> ZeroStats, enrichCalls |-> 0, cand |-> ZeroLead]
NotExported == [done |-> FALSE, err |-> FALSE, rows |-> <<>>]

\* Everything but main's position: nothing started, an empty leads table.
InitRest ==
  /\ nsrc = 0
  /\ allowedStates = <<>>
  /\ spawned = 0
  /\ wpc = [k \in SourceIds |-> "idle"]
  /\ fetched = [k \in SourceIds |-> [n |-> 0, err |-> FALSE]]
  /\ wg = 0
  /\ closerpc = "idle"
  /\ closed = FALSE
  /\ chan = <<>>
  /\ cur = NoResult
  /\ idx = 0
  /\ store = {}
  /\ stats = ZeroStats
  /\ exported = NotExported
  /\ processed = [k \in SourceIds |-> <<>>]
  /\ enrichCalls = 0
  /\ pre = NoPre
  /\ outcome = NoOutcome
  /\ presented = [a \in ABNs |-> {}]
  /\ calls = 0

\* No function is being applied.
NoCall == [op |-> "none"]

Init == mainpc = "startup" /\ InitRest /\ input = NoCall /\ output = NoCall

workerVars == <<wpc, fetched, wg, closerpc, closed, chan>>
consumerVars == <<cur, idx, store, stats, processed, enrichCalls,
                  pre, outcome, presented>>

\* What main finds when it starts: whether os.MkdirAll succeeds, whether
\* ABR_GUID is set, whether the database opens, and -export-only.
Environments ==
  [op : {"main"}, mkdirOk : BOOLEAN, guidSet : BOOLEAN, dbOk : BOOLEAN,
   exportOnly : BOOLEAN]

\* Variant of Startup: ABR_GUID is not checked.
StartupNoCredentialCheck ==
  /\ mainpc = "startup"
  /\ \E env \in Environments, n \in 0..MaxSources, sf \in StateFilters :
     \E abort \in {~env.mkdirOk \/ ~env.dbOk} :
       /\ mainpc' = IF abort THEN "aborted"
                     ELSE IF env.exportOnly THEN "export" ELSE "spawn"
       /\ nsrc' = IF abort THEN 0 ELSE n
       /\ allowedStates' = IF abort THEN <<>> ELSE sf
       /\ input' = env
  /\ UNCHANGED <<spawned, workerVars, consumerVars, exported, calls, output>>

\* flag.Parse, MkdirAll, ABR_GUID, NewDuckDBRepo, Init; then -export-only.
\* abort: os.Exit(1) before anything is fetched.  The environment found is
\* kept in input.
Startup ==
  /\ mainpc = "startup"
  /\ \E env \in Environments, n \in 0..MaxSources, sf \in StateFilters :
     \E abort \in {~env.mkdirOk \/ ~env.guidSet \/ ~env.dbOk} :
       /\ mainpc' = IF abort THEN "aborted"
                     ELSE IF env.exportOnly THEN "export" ELSE "spawn"
       /\ nsrc' = IF abort THEN 0 ELSE n
       /\ allowedStates' = IF abort THEN <<>> ELSE sf
       /\ input' = env
  /\ UNCHANGED <<spawned, workerVars, consumerVars, exported, calls, output>>

\* for _, src := range sources { wg.Add(1); go func(src) {...}(src) }
Spawn ==
  /\ mainpc = "spawn"
  /\ spawned < nsrc
  /\ spawned' = spawned + 1
  /\ wg' = wg + 1
  /\ wpc' = [wpc EXCEPT ![spawned + 1] = "fetch"]
  /\ UNCHANGED <<mainpc, nsrc, allowedStates, fetched, closerpc, closed, chan,
                 consumerVars, exported, calls,
                 input, output>>

\* go func() { wg.Wait(); close(resultsChan) }()
SpawnCloser ==
  /\ mainpc = "spawn"
  /\ spawned = nsrc
  /\ closerpc' = "wait"
  /\ mainpc' = "recv"
  /\ UNCHANGED <<nsrc, allowedStates, spawned, wpc, fetched, wg, closed, chan,
                 consumerVars, exported, calls,
                 input, output>>

RECURSIVE SumTo(_, _)
SumTo(f, k) == IF k = 0 THEN 0 ELSE f[k] + SumTo(f, k - 1)

\* The leads all Fetch calls returned so far.
TotalFetched(f) == SumTo([k \in SourceIds |-> f[k].n], MaxSources)

\* Variant of WorkerFetch: the worker upserts a lead it fetched itself.
WorkerFetchSaving(k) ==
  /\ wpc[k] = "fetch"
  /\ \E n \in 0..MaxLeads, err \in BOOLEAN :
       /\ n + TotalFetched(fetched) <= MaxTotal
       /\ fetched' = [fetched EXCEPT ![k] = [n |-> n, err |-> err]]
       /\ store' = IF n = 0 THEN store
                    ELSE SaveLead(store, Candidate(k, "bolt"), 0, FALSE).store
  /\ wpc' = [wpc EXCEPT ![k] = "send"]
  /\ UNCHANGED <<mainpc, nsrc, allowedStates, spawned, wg, closerpc, closed,
                 chan, cur, idx, stats, processed, enrichCalls, pre, outcome,
                 presented, exported, calls, input, output>>

\* leads, err := src.Fetch(ctx): any number of leads, with or without error.
WorkerFetch(k) ==
  /\ wpc[k] = "fetch"
  /\ \E n \in 0..MaxLeads, err \in BOOLEAN :
       /\ n + TotalFetched(fetched) <= MaxTotal
       /\ fetched' = [fetched EXCEPT ![k] = [n |-> n, err |-> err]]
  /\ wpc' = [wpc EXCEPT ![k] = "send"]
  /\ UNCHANGED <<mainpc, nsrc, allowedStates, spawned, wg, closerpc, closed,
                 chan, consumerVars, exported, calls,
                 input, output>>

\* Variant of ResultOf: the last lead of the slice is left out.
ResultOfLossy(k, f) ==
  [source |-> k, n |-> IF f.err \/ f.n = 0 THEN 0 ELSE f.n - 1, err |-> f.err]

\* Variant of ResultOf: the leads are sent and the error is not.
ResultOfNoErr(k, f) == [source |-> k, n |-> f.n, err |-> FALSE]

\* The fetchResult a worker builds: on error it carries no leads.
ResultOf(k, f) ==
  [source |-> k, n |-> IF f.err THEN 0 ELSE f.n, err |-> f.err]

\* Variant of WorkerSend: the return after the send of a failed Fetch is
\* missing, so that worker sends a second result.
WorkerSendTwice(k) ==
  /\ wpc[k] = "send"
  /\ mainpc # "crashed"
  /\ closed \/ Len(chan) < nsrc
  /\ IF closed
       THEN /\ wpc' = [wpc EXCEPT ![k] = "panic"]
            /\ chan' = chan
            /\ mainpc' = "crashed"
       ELSE /\ wpc' = [wpc EXCEPT ![k] = "exit"]
            /\ chan' = IF fetched[k].err
                         THEN chan \o <<ResultOf(k, fetched[k]),
                                        ResultOf(k, fetched[k])>>
                       ELSE Append(chan, ResultOf(k, fetched[k]))
            /\ mainpc' = mainpc
  /\ UNCHANGED <<nsrc, allowedStates, spawned, fetched, wg, closerpc,
                 closed, consumerVars, exported, calls, input, output>>

\* resultsChan <- fetchResult{...}: blocks while the buffer is full; a
\* send on a closed channel panics, which ends the process.
WorkerSend(k) ==
  /\ wpc[k] = "send"
  /\ mainpc # "crashed"
  /\ closed \/ Len(chan) < nsrc
  /\ IF closed
       THEN /\ wpc' = [wpc EXCEPT ![k] = "panic"]
            /\ chan' = chan
            /\ mainpc' = "crashed"
       ELSE /\ wpc' = [wpc EXCEPT ![k] = "exit"]
            /\ chan' = Append(chan, ResultOf(k, fetched[k]))
            /\ mainpc' = mainpc
  /\ UNCHANGED <<nsrc, allowedStates, spawned, fetched, wg, closerpc,
                 closed, consumerVars, exported, calls,
                 input, output>>

\* Variant of WorkerDone: the goroutine returns without wg.Done().
WorkerDoneNoDecr(k) ==
  /\ wpc[k] = "exit"
  /\ wpc' = [wpc EXCEPT ![k] = "done"]
  /\ UNCHANGED <<mainpc, nsrc, allowedStates, spawned, fetched, wg, closerpc,
                 closed, chan, consumerVars, exported, calls,
                 input, output>>

\* defer wg.Done()
WorkerDone(k) ==
  /\ wpc[k] = "exit"
  /\ wg' = wg - 1
  /\ wpc' = [wpc EXCEPT ![k] = "done"]
  /\ UNCHANGED <<mainpc, nsrc, allowedStates, spawned, fetched, closerpc,
                 closed, chan, consumerVars, exported, calls,
                 input, output>>

\* Variant of CloserClose: the channel is closed without wg.Wait().
CloserCloseNoWait ==
  /\ closerpc = "wait"
  /\ closed' = TRUE
  /\ closerpc' = "done"
  /\ UNCHANGED <<mainpc, nsrc, allowedStates, spawned, wpc, fetched, wg, chan,
                 consumerVars, exported, calls, input, output>>

\* wg.Wait() returns when the counter is 0; then close(resultsChan).
CloserClose ==
  /\ closerpc = "wait"
  /\ wg = 0
  /\ closed' = TRUE
  /\ closerpc' = "done"
  /\ UNCHANGED <<mainpc, nsrc, allowedStates, spawned, wpc, fetched, wg, chan,
                 consumerVars, exported, calls,
                 input, output>>

\* for result := range resultsChan: take the next result; a result with
\* err != nil is skipped (continue), one without leads has an empty body.
Recv ==
  /\ mainpc = "recv"
  /\ chan # <<>>
  /\ cur' = Head(chan)
  /\ chan' = Tail(chan)
  /\ IF Head(chan).err \/ Head(chan).n = 0
       THEN mainpc' = "recv" /\ idx' = 0
       ELSE mainpc' = "lead" /\ idx' = 1
  /\ pre' = NoPre
  /\ outcome' = NoOutcome
  /\ UNCHANGED <<nsrc, allowedStates, spawned, wpc, fetched, wg, closerpc,
                 closed, store, stats, processed, enrichCalls, presented,
                 exported, calls,
                 input, output>>

\* range over a closed, drained channel ends the loop.
RecvClosed ==
  /\ mainpc = "recv"
  /\ chan = <<>>
  /\ closed
  /\ mainpc' = "summary"
  /\ pre' = NoPre
  /\ outcome' = NoOutcome
  /\ UNCHANGED <<nsrc, allowedStates, spawned, workerVars, cur, idx, store,
                 stats, processed, enrichCalls, presented, exported, calls,
                 input, output>>

\* Variant of Eligible: the GST test is left out of the conjunction.
EligibleNoGst(l, states) ==
  /\ IsVeteran(l, TargetAge, Today)
  /\ IsInvestable(l, states, <<>>)
  /\ IsPrivateEntity(l)

\* isVet && isInv && isGst && isPrivate
Eligible(l, states) ==
  /\ IsVeteran(l, TargetAge, Today)
  /\ IsInvestable(l, states, <<>>)
  /\ l.IsGSTRegistered
  /\ IsPrivateEntity(l)

TagSet(l) == {l.Sources[k] : k \in 1..Len(l.Sources)}

\* time.Now() in SaveLead: a logical time, the ordinal of the iteration.
Clock(sts) == sts.Found

\* Variant of Resolve: the cache is not consulted, Enrich is always called.
ResolveNoCache(c, found, e, resp) ==
  LET en == Enrich(c, resp)
  IN IF c.Name = ""
       THEN [kind |-> "noname", looked |-> FALSE, hit |-> FALSE,
             enriched |-> FALSE, lead |-> c]
     ELSE IF en.err
       THEN [kind |-> "enrichErr", looked |-> FALSE, hit |-> FALSE,
             enriched |-> TRUE, lead |-> c]
     ELSE [kind |-> "resolved", looked |-> FALSE, hit |-> FALSE,
           enriched |-> TRUE, lead |-> en.lead]

\* Variant of Resolve: the name is not tested, an empty name goes on to the
\* cache check and the enrichment like any other.
ResolveNoNameCheck(c, found, e, resp) ==
  LET en == Enrich(c, resp)
  IN IF found # {}
       THEN [kind |-> "resolved", looked |-> TRUE, hit |-> TRUE,
             enriched |-> FALSE, lead |-> e]
     ELSE IF en.err
       THEN [kind |-> "enrichErr", looked |-> TRUE, hit |-> FALSE,
             enriched |-> TRUE, lead |-> c]
     ELSE [kind |-> "resolved", looked |-> TRUE, hit |-> FALSE,
           enriched |-> TRUE, lead |-> en.lead]

\* Lines 205-222: the name check, the cache check and the enrichment of
\* candidate c.  found: what GetLeadByName may return for c.Name; e: the
\* row it does return (when found is not empty); resp: the registry's
\* answer, when Enrich is called.
\*   kind      "noname" | "enrichErr" | "resolved"
\*   looked    GetLeadByName was called
\*   hit       existing != nil          enriched  Enrich was called
\*   lead      the lead handed to the filter
Resolve(c, found, e, resp) ==
  LET en == Enrich(c, resp)
  IN IF c.Name = ""
       THEN [kind |-> "noname", looked |-> FALSE, hit |-> FALSE,
             enriched |-> FALSE, lead |-> c]
     ELSE IF found # {}
       THEN [kind |-> "resolved", looked |-> TRUE, hit |-> TRUE,
             enriched |-> FALSE, lead |-> e]
     ELSE IF en.err
       THEN [kind |-> "enrichErr", looked |-> TRUE, hit |-> FALSE,
             enriched |-> TRUE, lead |-> c]
     ELSE [kind |-> "resolved", looked |-> TRUE, hit |-> FALSE,
           enriched |-> TRUE, lead |-> en.lead]

\* Variant of FilterAndSave: Selected is counted before the upsert, so a
\* failed upsert is counted in Selected and in Error.
FilterAndSaveSelectFirst(st, sts, states, l, fail) ==
  LET sv == SaveLead(st, l, Clock(sts), fail)
      sel == incr(sts, "Selected", 1)
  IN IF ~Eligible(l, states)
       THEN [kind |-> "skipped", isNew |-> FALSE, store |-> st,
             stats |-> incr(sts, "Skipped", 1)]
     ELSE IF sv.err
       THEN [kind |-> "saveErr", isNew |-> sv.isNew, store |-> sv.store,
             stats |-> incr(sel, "Error", 1)]
     ELSE [kind |-> "saved", isNew |-> sv.isNew, store |-> sv.store,
           stats |-> IF sv.isNew THEN incr(sel, "New", 1)
                     ELSE incr(sel, "Updated", 1)]

\* Lines 224-249: the filter and the upsert of a resolved lead, with the
\* counters.  fail: the engine rejects the INSERT.
FilterAndSave(st, sts, states, l, fail) ==
  LET sv == SaveLead(st, l, Clock(sts), fail)
      sel == incr(sts, "Selected", 1)
  IN IF ~Eligible(l, states)
       THEN [kind |-> "skipped", isNew |-> FALSE, store |-> st,
             stats |-> incr(sts, "Skipped", 1)]
     ELSE IF sv.err
       THEN [kind |-> "saveErr", isNew |-> sv.isNew, store |-> sv.store,
             stats |-> incr(sts, "Error", 1)]
     ELSE [kind |-> "saved", isNew |-> sv.isNew, store |-> sv.store,
           stats |-> IF sv.isNew THEN incr(sel, "New", 1)
                     ELSE incr(sel, "Updated", 1)]

\* Variant of EnrichFailed: the dropped candidate is also counted Skipped.
EnrichFailedSkip(sts) == incr(incr(sts, "Error", 1), "Skipped", 1)

\* Lines 217-221: Enrich returned an error: stats.incr("Error", 1); continue.
EnrichFailed(sts) == incr(sts, "Error", 1)

\* Variant of AfterLead: a failed enrichment or upsert ends the run.
AfterLeadFatal(kind, more) ==
  IF kind \in {"enrichErr", "saveErr"} THEN "aborted"
  ELSE IF more THEN "lead" ELSE "recv"

\* Where the consumer goes after an iteration that ended as kind: to the
\* next lead of the result if there is one (more), else back to the channel.
AfterLead(kind, more) == IF more THEN "lead" ELSE "recv"

\* Lines 203-249, one iteration of "for _, lead := range result.leads":
\* Found is counted, then the lead resolved as rs is dropped, or filtered
\* and upserted.
Iteration(st, sts, states, rs, fail) ==
  LET s1 == incr(sts, "Found", 1)
  IN IF rs.kind = "noname"
       THEN [kind |-> "noname", isNew |-> FALSE, store |-> st,
             stats |-> incr(s1, "Skipped", 1)]
     ELSE IF rs.kind = "enrichErr"
       THEN [kind |-> "enrichErr", isNew |-> FALSE, store |-> st,
             stats |-> EnrichFailed(s1)]
     ELSE FilterAndSave(st, s1, states, rs.lead, fail)

\* The registry is not asked.
NoResponse == [netErr |-> FALSE, toks |-> <<>>]

\* The consumer takes up lead idx of the current result and runs the loop
\* body on it; the loop variable and the body's locals are dead afterwards.
\* The iteration's inputs: the candidate c the source reported, the row e
\* the name lookup returns if there is one, the registry's answer resp if
\* Enrich is called, the engine's verdict fail if SaveLead is called.
ProcessLead ==
  /\ mainpc = "lead"
  /\ \E kind \in CandKinds :
     \E c \in {Candidate(cur.source, kind)} :
     \E found \in {IF c.Name = "" THEN {} ELSE GetLeadByName(store, c.Name)} :
     \E e \in (IF found = {} THEN {c} ELSE found) :
     \E resp \in (IF c.Name = "" \/ found # {} THEN {NoResponse}
                  ELSE Responses) :
     \E rs \in {Resolve(c, found, e, resp)} :
     \E fail \in (IF rs.kind = "resolved" /\ Eligible(rs.lead, allowedStates)
                  THEN BOOLEAN ELSE {FALSE}) :
     \E r \in {Iteration(store, stats, allowedStates, rs, fail)} :
       /\ store' = r.store
       /\ stats' = r.stats
       /\ enrichCalls' = IF rs.enriched THEN enrichCalls + 1 ELSE enrichCalls
       /\ pre' = [store |-> store, stats |-> stats,
                  enrichCalls |-> enrichCalls, cand |-> c]
       /\ outcome' = [kind |-> r.kind, source |-> cur.source,
                      looked |-> rs.looked, hit |-> rs.hit,
                      enriched |-> rs.enriched,
                      lead |-> rs.lead, isNew |-> r.isNew]
       /\ mainpc' = AfterLead(r.kind, idx < cur.n)
  /\ processed' = [processed EXCEPT ![cur.source] = Append(@, idx)]
  /\ idx' = IF idx < cur.n THEN idx + 1 ELSE 0
  /\ UNCHANGED <<nsrc, allowedStates, spawned, workerVars, cur, exported,
                 presented, calls,
                 input, output>>

\* logger.Info("Pipeline Complete", ...)
Summary ==
  /\ mainpc = "summary"
  /\ mainpc' = "export"
  /\ UNCHANGED <<nsrc, allowedStates, spawned, workerVars, consumerVars,
                 exported, calls,
                 input, output>>

\* strings.Split(strings.ToUpper(*sourcesFlag), ","): [""] for an empty flag.
RequestedSources(n) ==
  IF n = 0 THEN << <<>> >> ELSE [k \in 1..n |-> UpperSeq(SourceTag(k))]

\* repo.ExportCSV(ctx, outPath, *targetAge, allowedStates, requestedSources)
Export ==
  /\ mainpc = "export"
  /\ \E fail \in BOOLEAN,
        sq \in Ordered(ExportRows(store, Today, TargetAge, allowedStates,
                                  RequestedSources(nsrc))) :
       exported' = [done |-> TRUE, err |-> fail,
                    rows |-> IF fail THEN <<>> ELSE sq]
  /\ mainpc' = "done"
  /\ UNCHANGED <<nsrc, allowedStates, spawned, workerVars, consumerVars, calls,
                 input, output>>

Next ==
  \/ Startup
  \/ Spawn
  \/ SpawnCloser
  \/ \E k \in SourceIds : WorkerFetch(k)
  \/ \E k \in SourceIds : WorkerSend(k)
  \/ \E k \in SourceIds : WorkerDone(k)
  \/ CloserClose
  \/ Recv
  \/ RecvClosed
  \/ ProcessLead
  \/ Summary
  \/ Export

Spec == Init /\ [][Next]_vars

\* Every runnable goroutine is eventually scheduled, and every step of the
\* run strictly advances it, so weak fairness of the whole step suffices.
FairSpec == Spec /\ WF_vars(Next)

\* ------------------------------------------- the store called directly
\* SaveLead as a repository method: any caller, any Lead.  Sources is a
\* slice of distinct source identifiers, possibly empty.
StoreABNs == {"11", "22"}

SourceLists ==
  {sq \in UNION {[1..n -> {SourceTag(k) : k \in SourceIds}] :
                   n \in 0..MaxSources} :
     \A a, b \in 1..Len(sq) : a # b => sq[a] # sq[b]}

InitStore ==
  mainpc = "api" /\ InitRest /\ input = NoCall /\ output = NoCall

\* The Leads a caller may hand to SaveLead: two that differ in every
\* attribute but the identifier.
StoreLead(abn, ver, srcs) ==
  IF ver = 1
    THEN [ZeroLead EXCEPT !.ABN = abn, !.Name = "Acme Pty Ltd",
                          !.Category = "Manufacturing", !.Sources = srcs,
                          !.EntityType = <<"Australian", "Private", "Company">>,
                          !.EntityStatus = "Active", !.State = "VIC",
                          !.Postcode = "3000", !.RegistrationDate = OldDate,
                          !.IsGSTRegistered = TRUE, !.FoundAtURL = "url"]
  ELSE [ZeroLead EXCEPT !.ABN = abn, !.Name = "Bolt Co",
                        !.Category = "Food", !.Sources = srcs,
                        !.EntityType = <<"Australian", "Public", "Company">>,
                        !.EntityStatus = "Cancelled", !.State = "NSW",
                        !.Postcode = "2000", !.RegistrationDate = YoungDate,
                        !.IsGSTRegistered = FALSE, !.FoundAtURL = "url2"]

\* isNew, err := repo.SaveLead(ctx, l)
ApiSaveLead ==
  /\ mainpc = "api"
  /\ calls < MaxCalls
  /\ \E abn \in StoreABNs, ver \in 1..2, srcs \in SourceLists, fail \in BOOLEAN :
       \E l \in {StoreLead(abn, ver, srcs)} :
       \E r \in {SaveLead(store, l, calls + 1, fail)} :
         /\ store' = r.store
         /\ presented' = IF r.err THEN presented
                         ELSE [presented EXCEPT ![abn] = @ \cup TagSet(l)]
         /\ pre' = [NoPre EXCEPT !.store = store, !.cand = l]
         /\ outcome' = [NoOutcome EXCEPT
                          !.kind = IF r.err THEN "saveErr" ELSE "saved",
                          !.lead = l, !.isNew = r.isNew]
  /\ calls' = calls + 1
  /\ UNCHANGED <<mainpc, nsrc, allowedStates, spawned, workerVars, cur, idx,
                 stats, processed, enrichCalls, exported, input, output>>

NextStore == ApiSaveLead

SpecStore == InitStore /\ [][NextStore]_vars

\* ------------------------------------------- the predicates of model.Lead
\* One call of a Lead method: the arguments are drawn at the start, the
\* call stores what the method returned.
Nows == {Today, [y |-> 2025, d |-> 1]}

RegistrationDates ==
  {ZeroDate, OldDate, YoungDate,
   [y |-> 2009, d |-> 100], [y |-> 2009, d |-> 101],
   [y |-> 2023, d |-> 100], [y |-> 2023, d |-> 101],
   [y |-> 2024, d |-> 1], [y |-> 2024, d |-> 100], [y |-> 2024, d |-> 101],
   [y |-> 2025, d |-> 50], [y |-> 2030, d |-> 1]}

MinAges == {-1, 0, 1, TargetAge, 24}

EntityTypes ==
  {<<>>, <<"Unknown">>,
   <<"Proprietary", "Limited">>,
   <<"Australian", "Private", "Company">>,
   <<"Public", "Company">>,
   <<"Australian", "Public", "Company">>,
   <<"PUBLIC", "COMPANY">>,
   <<"public", "company">>,
   <<"Company", "Public">>,
   <<"Public", "Trading", "Company">>,
   <<"State", "Government", "Entity">>,
   <<"Sole", "Trader">>,
   <<"Trader">>,
   <<"Individual">>,
   <<"Other", "Incorporated", "Entity">>,
   <<"Other", "Entity">>,
   <<"Discretionary", "Trading", "Trust">>,
   <<"Trust">>}

States == {"", "VIC", "vic", "NSW", "QLD"}

AllowLists ==
  {<<>>, <<"VIC">>, <<"vic">>, <<"NSW", "VIC">>, <<"QLD">>, <<"">>}

\* [][2]int: inclusive postcode ranges.
PostcodeRanges == {<<>>, <<<<3000, 3999>>>>, <<<<2000, 2999>>>>}

ModelInputs ==
  {[op |-> "AgeYears",
    lead |-> [ZeroLead EXCEPT !.RegistrationDate = d],
    minAge |-> a, now |-> n] :
     d \in RegistrationDates, a \in MinAges, n \in Nows}
  \cup
  {[op |-> "IsPrivateEntity", lead |-> [ZeroLead EXCEPT !.EntityType = t]] :
     t \in EntityTypes}
  \cup
  {[op |-> "IsInvestable",
    lead |-> [ZeroLead EXCEPT !.State = st, !.Postcode = "3000"],
    allowedStates |-> al, allowedPostcodes |-> pc] :
     st \in States, al \in AllowLists, pc \in PostcodeRanges}

InitModel ==
  /\ mainpc = "model"
  /\ InitRest
  /\ input \in ModelInputs
  /\ output = NoCall

\* l.AgeYears(); l.IsVeteran(minAge)
CallAgeYears ==
  /\ mainpc = "model" /\ output = NoCall
  /\ input.op = "AgeYears"
  /\ output' = [op |-> "AgeYears",
                age |-> AgeYears(input.lead, input.now),
                veteran |-> IsVeteran(input.lead, input.minAge, input.now)]
  /\ UNCHANGED <<mainpc, nsrc, allowedStates, spawned, workerVars,
                 consumerVars, exported, calls, input>>

\* l.IsPrivateEntity()
CallIsPrivateEntity ==
  /\ mainpc = "model" /\ output = NoCall
  /\ input.op = "IsPrivateEntity"
  /\ output' = [op |-> "IsPrivateEntity",
                private |-> IsPrivateEntity(input.lead)]
  /\ UNCHANGED <<mainpc, nsrc, allowedStates, spawned, workerVars,
                 consumerVars, exported, calls, input>>

\* l.IsInvestable(allowedStates, allowedPostcodes)
CallIsInvestable ==
  /\ mainpc = "model" /\ output = NoCall
  /\ input.op = "IsInvestable"
  /\ output' = [op |-> "IsInvestable",
                investable |-> IsInvestable(input.lead, input.allowedStates,
                                            input.allowedPostcodes)]
  /\ UNCHANGED <<mainpc, nsrc, allowedStates, spawned, workerVars,
                 consumerVars, exported, calls, input>>

NextModel == CallAgeYears \/ CallIsPrivateEntity \/ CallIsInvestable

SpecModel == InitModel /\ [][NextModel]_vars

\* ------------------------------------------------ Enrich called directly
\* One call of ABRClient.Enrich on a Lead, the registry answering resp.
PrivateCo == <<"Australian", "Private", "Company">>

EnrichLeads ==
  {[ZeroLead EXCEPT !.ABN = abn, !.Name = "Acme Pty Ltd",
                    !.RegistrationDate = d, !.State = st, !.Postcode = pc,
                    !.Sources = <<SourceTag(1)>>] :
     abn \in {"", "11"}, d \in {ZeroDate, YoungDate}, st \in {"", "NSW"},
     pc \in {"", "2000"}}

Body(toks) == [netErr |-> FALSE, toks |-> toks]

EnrichResponses ==
  Responses \cup
  {Body(<<Tok("abn", "11")>>),
   Body(<<Tok("entitydescription", PrivateCo)>>),
   Body(<<Tok("entitydescription", PrivateCo), GstTok(OldDate, EmptyStr)>>),
   Body(<<Tok("entitydescription", PrivateCo), GstTok(OldDate, YoungDate)>>),
   Body(<<Tok("entitydescription", PrivateCo), GstTok(EmptyStr, ZeroDate)>>),
   Body(<<Tok("entitydescription", PrivateCo), GstTok(OldDate, YoungDate),
          GstTok(YoungDate, ZeroDate)>>),
   Body(<<Tok("entitystatuscode", "Active")>>),
   Body(<<GstTok(OldDate, ZeroDate)>>),
   Body(<<Tok("effectivefrom", OldDate)>>),
   Body(<<Tok("statecode", "VIC")>>),
   Body(<<Tok("postcode", "3000")>>),
   Body(<<Tok("entitystatuscode", "Active"), Tok("effectivefrom", OldDate),
          GstTok(OldDate, ZeroDate), Tok("statecode", "VIC"),
          Tok("postcode", "3000")>>),
   Body(<<Tok("entitydescription", PrivateCo), Tok("effectivefrom", EmptyStr),
          Tok("effectivefrom", ZeroDate), Tok("effectivefrom", BadStr),
          Tok("effectivefrom", OldDate), Tok("effectivefrom", YoungDate)>>),
   Body(<<Tok("entitydescription", PrivateCo), Tok("statecode", ""),
          Tok("statecode", "VIC"), Tok("statecode", "QLD"),
          Tok("postcode", "3000"), Tok("postcode", "4000")>>)}

InitEnrich ==
  /\ mainpc = "enrich"
  /\ InitRest
  /\ input \in {[op |-> "Enrich", lead |-> l, resp |-> resp] :
                   l \in EnrichLeads, resp \in EnrichResponses}
  /\ output = NoCall

\* err := enricher.Enrich(ctx, &lead)
CallEnrich ==
  /\ mainpc = "enrich" /\ output = NoCall
  /\ \E r \in {Enrich(input.lead, input.resp)} :
       output' = [op |-> "Enrich", request |-> EnrichRequest(input.lead),
                  lead |-> r.lead, err |-> r.err]
  /\ UNCHANGED <<mainpc, nsrc, allowedStates, spawned, workerVars,
                 consumerVars, exported, calls, input>>

NextEnrich == CallEnrich

SpecEnrich == InitEnrich /\ [][NextEnrich]_vars

\* --------------------------------------------- ExportCSV called directly
\* One call of DuckDBRepo.ExportCSV on a table of up to two rows that
\* SaveLead inserted.  The Leads differ from Baseline, which every filter
\* passes, in one attribute each.
Baseline == StoreLead("11", 1, <<SourceTag(1)>>)

ExportLeads ==
  {Baseline}
  \cup {[Baseline EXCEPT !.RegistrationDate = d] :
          d \in {ZeroDate, YoungDate, [y |-> 2009, d |-> 100],
                 [y |-> 2009, d |-> 101], [y |-> 2024, d |-> 100]}}
  \cup {[Baseline EXCEPT !.IsGSTRegistered = FALSE]}
  \cup {[Baseline EXCEPT !.EntityType = t] :
          t \in {<<"Australian", "Public", "Company">>,
                 <<"PUBLIC", "COMPANY">>,
                 <<"State", "Government", "Entity">>,
                 <<"Discretionary", "Trading", "Trust">>}}
  \cup {[Baseline EXCEPT !.State = st] : st \in {"NSW", "vic", ""}}
  \cup {[Baseline EXCEPT !.Sources = sl] :
          sl \in {<<>>, <<SourceTag(2)>>, <<SourceTag(1), SourceTag(2)>>}}

ExportStores ==
  {{}}
  \cup {SaveLead({}, l, 1, FALSE).store : l \in ExportLeads}
  \cup {SaveLead(SaveLead({}, l, 1, FALSE).store,
                  [m EXCEPT !.ABN = "22"], 2, FALSE).store :
          l \in ExportLeads, m \in ExportLeads}

\* minAge: the -age flag or 0.
ExportAges == {0, TargetAge}

\* states: nil, or strings.Split of an upper-cased -states flag such as
\* "VIC", "NSW,VIC" or ",VIC".
ExportStates == {<<>>, <<"VIC">>, <<"NSW", "VIC">>, <<"", "VIC">>}

\* sources: nil, or strings.Split of an upper-cased -sources flag.
ExportSources ==
  {<<>>, << <<>> >>, << <<"r">> >>, << <<"A">> >>, << <<"S">>, <<"A">> >>}

InitExport ==
  /\ mainpc = "exportcsv"
  /\ nsrc = 0 /\ allowedStates = <<>> /\ spawned = 0
  /\ wpc = [k \in SourceIds |-> "idle"]
  /\ fetched = [k \in SourceIds |-> [n |-> 0, err |-> FALSE]]
  /\ wg = 0 /\ closerpc = "idle" /\ closed = FALSE /\ chan = <<>>
  /\ cur = NoResult /\ idx = 0
  /\ store \in ExportStores
  /\ stats = ZeroStats /\ exported = NotExported
  /\ processed = [k \in SourceIds |-> <<>>]
  /\ enrichCalls = 0 /\ pre = NoPre /\ outcome = NoOutcome
  /\ presented = [a \in ABNs |-> {}]
  /\ calls = 0
  /\ input \in {[op |-> "ExportCSV", minAge |-> a, states |-> sts,
                  sources |-> srcs] :
                   a \in ExportAges, sts \in ExportStates,
                   srcs \in ExportSources}
  /\ output = NoCall

\* err := repo.ExportCSV(ctx, path, minAge, states, sources)
CallExportCSV ==
  /\ mainpc = "exportcsv" /\ output = NoCall
  /\ \E sq \in Ordered(ExportRows(store, Today, input.minAge, input.states,
                                   input.sources)) :
       output' = [op |-> "ExportCSV", rows |-> sq]
  /\ pre' = [NoPre EXCEPT !.store = store]
  /\ UNCHANGED <<mainpc, nsrc, allowedStates, spawned, workerVars, cur, idx,
                 store, stats, processed, enrichCalls, outcome, presented,
                 exported, calls, input>>

\* A second ExportCSV call with the arguments of the first, nothing having
\* been written in between; what it wrote is kept in exported.
CallExportCSVAgain ==
  /\ mainpc = "exportcsv" /\ output # NoCall /\ ~exported.done
  /\ \E sq \in Ordered(ExportRows(store, Today, input.minAge, input.states,
                                   input.sources)) :
       exported' = [done |-> TRUE, err |-> FALSE, rows |-> sq]
  /\ UNCHANGED <<mainpc, nsrc, allowedStates, spawned, workerVars,
                 consumerVars, calls, input, output>>

NextExport == CallExportCSV \/ CallExportCSVAgain

SpecExport == InitExport /\ [][NextExport]_vars

\* ------------------------------------------------- deleting, called directly
\* One delete request on a table of up to two rows that SaveLead
\* inserted: DeleteLeadByFilters with a filters map, or the delete command
\* with its flags.
DeleteLeads ==
  {Baseline,
   [Baseline EXCEPT !.RegistrationDate = YoungDate],
   [Baseline EXCEPT !.Sources = <<SourceTag(2)>>],
   [Baseline EXCEPT !.Name = "Bolt Co"]}

DeleteStores ==
  {{}}
  \cup {SaveLead({}, l, 1, FALSE).store : l \in DeleteLeads}
  \cup {SaveLead(SaveLead({}, l, 1, FALSE).store,
                  [m EXCEPT !.ABN = "22"], 2, FALSE).store :
          l \in DeleteLeads, m \in DeleteLeads}

Absent == [t |-> "absent", v |-> 0]

\* The function ch without the keys whose value is Absent.
Present(ch) == [k \in {x \in DOMAIN ch : ch[x] # Absent} |-> ch[k]]

FilterMaps ==
  {Present([name |-> n, abn |-> a, age |-> g, source |-> s,
            entity_type |-> e]) :
     n \in {Absent, StrVal("ACME PTY LTD"), IntVal(7)},
     a \in {Absent, StrVal("22")},
     g \in {Absent, IntVal(0), IntVal(25), StrVal("25")},
     s \in {Absent, StrVal(<<>>), StrVal(<<"r">>)},
     e \in {Absent, StrVal("Trust")}}

FlagSets ==
  {Present([f \in FilterFlags |->
              CASE f = "name" -> n [] f = "abn" -> a [] f = "age" -> g
                [] f = "source" -> s [] OTHER -> e]) :
     n \in {Absent, StrVal("ACME PTY LTD"), StrVal("")},
     a \in {Absent, StrVal("22"), StrVal("")},
     g \in {Absent, IntVal(0), IntVal(25), IntVal(-1)},
     s \in {Absent, StrVal(<<>>), StrVal(<<"r">>)},
     e \in {Absent, StrVal("Trust")}}

InitDelete ==
  /\ mainpc = "delete"
  /\ nsrc = 0 /\ allowedStates = <<>> /\ spawned = 0
  /\ wpc = [k \in SourceIds |-> "idle"]
  /\ fetched = [k \in SourceIds |-> [n |-> 0, err |-> FALSE]]
  /\ wg = 0 /\ closerpc = "idle" /\ closed = FALSE /\ chan = <<>>
  /\ cur = NoResult /\ idx = 0
  /\ store \in DeleteStores
  /\ stats = ZeroStats /\ exported = NotExported
  /\ processed = [k \in SourceIds |-> <<>>]
  /\ enrichCalls = 0 /\ pre = NoPre /\ outcome = NoOutcome
  /\ presented = [a \in ABNs |-> {}]
  /\ calls = 0
  /\ input \in {[op |-> "DeleteLeadByFilters", filters |-> f] :
                   f \in FilterMaps}
               \cup {[op |-> "delete", flags |-> f, answer |-> a] :
                       f \in FlagSets, a \in {"yes", "no"}}
  /\ output = NoCall

\* err := repo.DeleteLeadByFilters(ctx, filters)
CallDeleteLeadByFilters ==
  /\ mainpc = "delete" /\ output = NoCall
  /\ input.op = "DeleteLeadByFilters"
  /\ \E fail \in BOOLEAN :
     \E d \in {DeleteLeadByFilters(store, input.filters, Today, fail)} :
       /\ store' = d.store
       /\ output' = [op |-> "DeleteLeadByFilters", err |-> d.err]
  /\ pre' = [NoPre EXCEPT !.store = store]
  /\ UNCHANGED <<mainpc, nsrc, allowedStates, spawned, workerVars, cur, idx,
                 stats, processed, enrichCalls, outcome, presented,
                 exported, calls, input>>

\* One run of the delete command.
RunDeleteTool ==
  /\ mainpc = "delete" /\ output = NoCall
  /\ input.op = "delete"
  /\ \E fail \in BOOLEAN :
     \E d \in {DeleteTool(store, input.flags, input.answer, Today, fail)} :
       /\ store' = d.store
       /\ output' = [op |-> "delete", exit |-> d.exit]
  /\ pre' = [NoPre EXCEPT !.store = store]
  /\ UNCHANGED <<mainpc, nsrc, allowedStates, spawned, workerVars, cur, idx,
                 stats, processed, enrichCalls, outcome, presented,
                 exported, calls, input>>

NextDelete == CallDeleteLeadByFilters \/ RunDeleteTool

SpecDelete == InitDelete /\ [][NextDelete]_vars

\* ------------------------------------------------------------ claims
\* The identifiers a stored sources value lists: the value split at the
\* commas, empty pieces dropped.
RECURSIVE Split(_)
Split(s) ==
  LET commas == {i \in 1..Len(s) : s[i] = ","}
      first == CHOOSE i \in commas : \A j \in commas : i <= j
  IN IF commas = {} THEN <<s>>
     ELSE <<SubSeq(s, 1, first - 1)>> \o Split(SubSeq(s, first + 1, Len(s)))

Entries(s) == SelectSeq(Split(s), LAMBDA t : t # <<>>)
EntrySet(s) == {Entries(s)[k] : k \in 1..Len(Entries(s))}
NoDup(sq) == \A a, b \in 1..Len(sq) : a # b => sq[a] # sq[b]

LoopOver == mainpc \in {"summary", "export", "done"}
Returned(k) == IF fetched[k].err THEN 0 ELSE fetched[k].n
UpTo(n) == [i \in 1..n |-> i]
RowOf(st, abn) == CHOOSE r \in st : r.abn = abn
Existed == \E r \in pre.store : r.abn = outcome.lead.ABN
AllFour(l) ==
  /\ AgeYears(l, Today) >= TargetAge
  /\ (Len(allowedStates) > 0 =>
        \E k \in 1..Len(allowedStates) : EqualFold(l.State, allowedStates[k]))
  /\ l.IsGSTRegistered
  /\ IsPrivateEntity(l)

\* C1: under every interleaving of the workers, the leads of a source whose
\* Fetch succeeded are processed one by one, each index once and none
\* twice; when the loop is over all of them have been processed and Found
\* is the number of leads the successful sources returned.
C1_ExactlyOnce ==
  /\ \A k \in SourceIds :
       /\ processed[k] = UpTo(Len(processed[k]))
       /\ Len(processed[k]) <= fetched[k].n
  /\ LoopOver =>
       /\ \A k \in SourceIds :
            ~fetched[k].err => processed[k] = UpTo(fetched[k].n)
       /\ stats.Found = SumTo([k \in SourceIds |-> Returned(k)], MaxSources)

\* C1 witness: two sources returned a lead each, the result of the source
\* started second was consumed first, and the run ended with Found = 2.
C1_Witness ==
  /\ mainpc = "done"
  /\ nsrc = 2
  /\ \A k \in 1..2 : ~fetched[k].err /\ fetched[k].n = 1
  /\ cur.source = 1
  /\ stats.Found = 2

\* C2: after any sequence of SaveLead calls, the sources value stored for
\* a canonicalID lists exactly the identifiers presented for it in those
\* calls (their set-union, whatever the order of the calls), none twice.
C2_SourcesAreUnion ==
  \A r \in store :
    /\ NoDup(Entries(r.sources))
    /\ EntrySet(r.sources) = presented[r.abn]

\* C2 failing state: after SaveLead with Sources [R] and then with Sources
\* [R, A] for the same canonicalID, the stored value is "R,R,A".
C2_Duplicate ==
  /\ calls = 2
  /\ \E r \in store :
       /\ r.sources = Join(<<SourceTag(1), SourceTag(1), SourceTag(2)>>)
       /\ presented[r.abn] = {SourceTag(1), SourceTag(2)}

C4_LoopTerminates ==
  (mainpc \in {"spawn", "recv", "lead"}) ~> (closed /\ LoopOver)

\* C4 witness: every source failed, the channel is closed and the loop has
\* just been left.
C4_Witness ==
  /\ mainpc = "summary"
  /\ closed
  /\ nsrc = 2
  /\ \A k \in 1..2 : fetched[k].err

\* C5: no lead of a source whose Fetch returned an error is processed,
\* whether or not Fetch also returned leads; the counters account for the
\* processed leads only; and when the loop is over every lead of every other
\* source has been processed.
C5_FailedSourceDiscarded ==
  /\ \A k \in SourceIds : fetched[k].err => processed[k] = <<>>
  /\ stats.Found
       = SumTo([k \in SourceIds |-> Len(processed[k])], MaxSources)
  /\ stats.Skipped + stats.Error + stats.Selected = stats.Found
  /\ LoopOver =>
       \A k \in SourceIds : ~fetched[k].err => Len(processed[k]) = fetched[k].n

\* C5 witness: one source failed although Fetch returned a lead, the other
\* source's lead was processed, and the loop is over.
C5_Witness ==
  /\ LoopOver
  /\ fetched[1].err /\ fetched[1].n = 1
  /\ ~fetched[2].err /\ fetched[2].n = 1
  /\ processed[2] = <<1>>
  /\ stats.Found = 1

\* C6: an iteration in which Enrich failed leaves the store as it was,
\* adds one to Error and to no other outcome counter, and the loop goes on:
\* to the next lead of the result if there is one, else to the channel.
C6_EnrichFailure ==
  outcome.kind = "enrichErr" =>
    /\ store = pre.store
    /\ stats = [pre.stats EXCEPT !.Found = @ + 1, !.Error = @ + 1]
    /\ mainpc \in {"lead", "recv"}
    /\ Len(processed[outcome.source]) < cur.n => mainpc = "lead"

\* C6 witness: Enrich failed on a lead that was not the last of its result.
C6_Witness ==
  /\ outcome.kind = "enrichErr"
  /\ outcome.enriched
  /\ mainpc = "lead"
  /\ stats.Error = 1
  /\ stats.Found = 1

\* C7: a run that got past start-up eventually executes the export step,
\* whatever failed on the way.
C7_ReachesExport ==
  (mainpc \notin {"startup", "aborted"}) ~> exported.done

\* C7 witness: the export step ran after a source, an enrichment and an
\* upsert had failed.
C7_Witness ==
  /\ exported.done
  /\ \E k \in SourceIds : fetched[k].err
  /\ stats.Error = 2
  /\ pre.store = {} /\ store = {}

\* C8: a lead that reaches the filter is handed to SaveLead exactly when
\* the age, jurisdiction, GST and private-entity predicates all hold for it;
\* a successful SaveLead leaves its row, stamped by this iteration, in the
\* store; a lead any predicate rejects adds one to Skipped and changes
\* neither the store nor Error nor Selected.
C8_SaveIffEligible ==
  outcome.kind \in {"skipped", "saved", "saveErr"} =>
    /\ outcome.kind \in {"saved", "saveErr"} <=> AllFour(outcome.lead)
    /\ outcome.kind = "saved" =>
         \E r \in store : r.abn = outcome.lead.ABN /\ r.updated_at = stats.Found
    /\ outcome.kind = "skipped" =>
         /\ store = pre.store
         /\ stats = [pre.stats EXCEPT !.Found = @ + 1, !.Skipped = @ + 1]

\* C8 witness: a lead that fails the GST predicate alone was skipped while
\* the store held a record.
C8_Witness ==
  /\ outcome.kind = "skipped"
  /\ ~outcome.lead.IsGSTRegistered
  /\ AllFour([outcome.lead EXCEPT !.IsGSTRegistered = TRUE])
  /\ store # {}
  /\ stats.Skipped = 1

C10_SourceRecorded ==
  (outcome.kind = "saved" /\ Existed) =>
    \E r \in store :
      /\ r.abn = outcome.lead.ABN
      /\ SourceTag(outcome.source) \in EntrySet(r.sources)

\* C10 failing state: the lead of a source was replaced by the stored record
\* of its name and upserted, and the stored sources do not list the source.
C10_SourceLost ==
  /\ outcome.kind = "saved"
  /\ outcome.hit
  /\ Existed
  /\ SourceTag(outcome.source)
       \notin EntrySet(RowOf(store, outcome.lead.ABN).sources)
  /\ RowOf(store, outcome.lead.ABN).sources
       = RowOf(pre.store, outcome.lead.ABN).sources

\* The columns of a row other than sources and updated_at.
KeptColumns ==
  {"abn", "name", "category", "entity_type", "entity_status", "state",
   "postcode", "registration_date", "gst_registered", "found_at_url"}

\* C11: a successful SaveLead of a Lead whose canonicalID is already stored
\* leaves every column of that row but sources and updated_at at the value
\* first stored, and adds, removes or changes no other row.
C11_UpsertFrame ==
  (outcome.kind = "saved" /\ Existed) =>
    /\ \E new \in store :
         /\ new.abn = outcome.lead.ABN
         /\ \A f \in KeptColumns :
              new[f] = RowOf(pre.store, outcome.lead.ABN)[f]
    /\ {r \in store : r.abn # outcome.lead.ABN}
         = {r \in pre.store : r.abn # outcome.lead.ABN}
    /\ Cardinality(store) = Cardinality(pre.store)

\* C11 witness: with two rows stored, a Lead differing in every attribute
\* from the row of its canonicalID was upserted; the row kept its name and
\* its sources grew.
C11_Witness ==
  /\ outcome.kind = "saved"
  /\ Existed
  /\ Cardinality(store) = 2
  /\ RowOf(store, outcome.lead.ABN).name # outcome.lead.Name
  /\ RowOf(store, outcome.lead.ABN).state # outcome.lead.State
  /\ RowOf(store, outcome.lead.ABN).sources
       # RowOf(pre.store, outcome.lead.ABN).sources

InFuture(reg, now) == reg.y > now.y \/ (reg.y = now.y /\ reg.d > now.d)

\* C13: AgeYears is the current year minus the registration year, less one
\* when the current day of the year is before the registration's, and 0
\* when that is negative; it is 0 for the zero date and for every future
\* date and never negative; IsVeteran(minAge) holds exactly when AgeYears
\* is at least minAge.
C13_AgeYears ==
  output.op = "AgeYears" =>
    LET reg == input.lead.RegistrationDate
        diff == (input.now.y - reg.y) - (IF input.now.d < reg.d THEN 1 ELSE 0)
    IN /\ reg # ZeroDate =>
            output.age = (IF diff < 0 THEN 0 ELSE diff)
       /\ (reg = ZeroDate \/ InFuture(reg, input.now)) => output.age = 0
       /\ output.age >= 0
       /\ output.veteran <=> (output.age >= input.minAge)

\* C13 witness: a date in a later year and earlier in the year than today
\* gave age 0 and, with minAge 1, no veteran.
C13_Witness ==
  /\ output.op = "AgeYears"
  /\ input.now = Today
  /\ input.lead.RegistrationDate = [y |-> 2025, d |-> 50]
  /\ input.minAge = 1
  /\ output.age = 0
  /\ ~output.veteran

\* The keywords of the claim, lower-cased and split into words.
ExcludedKeywords ==
  {<<"public", "company">>, <<"government">>, <<"sole", "trader">>,
   <<"individual">>, <<"other", "incorporated", "entity">>, <<"trust">>}

\* C14: IsPrivateEntity is FALSE exactly when the lower-cased entity type
\* contains one of the six keywords, TRUE otherwise (the empty type
\* included); "Public Company" is excluded, "Proprietary Limited" is not.
C14_IsPrivateEntity ==
  output.op = "IsPrivateEntity" =>
    /\ ~output.private <=>
         \E kw \in ExcludedKeywords :
           Contains(LowerSeq(input.lead.EntityType), kw)
    /\ input.lead.EntityType = <<>> => output.private
    /\ input.lead.EntityType = <<"Public", "Company">> => ~output.private
    /\ input.lead.EntityType = <<"Proprietary", "Limited">> => output.private

\* C14 witness: "Discretionary Trading Trust" was found not private.
C14_Witness ==
  /\ output.op = "IsPrivateEntity"
  /\ input.lead.EntityType = <<"Discretionary", "Trading", "Trust">>
  /\ ~output.private

\* C15: IsInvestable is TRUE when the allow-list is empty; with a
\* non-empty allow-list it is TRUE exactly when the lead's state equals an
\* entry ignoring case; it is the same for every postcode-range argument.
C15_IsInvestable ==
  output.op = "IsInvestable" =>
    /\ input.allowedStates = <<>> => output.investable
    /\ input.allowedStates # <<>> =>
         (output.investable <=>
            \E k \in 1..Len(input.allowedStates) :
              ToLower(input.lead.State) = ToLower(input.allowedStates[k]))
    /\ \A pc \in PostcodeRanges :
         output.investable
           = IsInvestable(input.lead, input.allowedStates, pc)

\* C15 witness: state "vic" with allow-list [NSW, VIC] and postcode ranges
\* that exclude the lead's postcode was found investable.
C15_Witness ==
  /\ output.op = "IsInvestable"
  /\ input.lead.State = "vic"
  /\ input.allowedStates = <<"NSW", "VIC">>
  /\ input.allowedPostcodes = <<<<2000, 2999>>>>
  /\ output.investable

\* The tokens of the answer Enrich decoded.
Toks == IF input.resp.netErr THEN <<>> ELSE input.resp.toks

\* C16: Enrich on a Lead with an empty canonicalID asks the registry for
\* the identifier by name, and then either fails or leaves the Lead with
\* an identifier.
C16_ResolvesByName ==
  (output.op = "Enrich" /\ input.lead.ABN = "") =>
    /\ output.request.api # "SearchByABNv202001"
    /\ output.err \/ output.lead.ABN # ""

\* C16 failing state: for a named Lead with an empty canonicalID Enrich
\* sent the identifier search with an empty search string, and the Lead's
\* identifier is still empty.
C16_NoNameLookup ==
  /\ output.op = "Enrich"
  /\ input.lead.ABN = "" /\ input.lead.Name # ""
  /\ output.request = [api |-> "SearchByABNv202001", searchString |-> ""]
  /\ output.lead.ABN = ""

\* C17: Enrich sets taxRegistered exactly when the response holds a
\* tax-registration sub-record with no end-date or with the end-date
\* 0001-01-01.
C17_GstIffActive ==
  (output.op = "Enrich" /\ ~input.resp.netErr
     /\ ~input.lead.IsGSTRegistered) =>
    (output.lead.IsGSTRegistered <=>
       \E k \in 1..Len(Toks) :
         /\ Toks[k].tag = "goodsandservicestax"
         /\ Toks[k].to \in {EmptyStr, ZeroDate})

\* C17 failing state: the response held a tax-registration sub-record with
\* a start date and no end-date, and taxRegistered is still false.
C17_NoEndDate ==
  /\ output.op = "Enrich"
  /\ ~output.err
  /\ \E k \in 1..Len(Toks) :
       /\ Toks[k].tag = "goodsandservicestax"
       /\ Toks[k].from = OldDate /\ Toks[k].to = EmptyStr
  /\ ~output.lead.IsGSTRegistered

\* The effective-from dates of the answer that are dates.
ValidFrom ==
  SelectSeq(Toks, LAMBDA t : t.tag = "effectivefrom"
                             /\ t.val \notin {EmptyStr, BadStr, ZeroDate})

ExpectedTags ==
  {"entitydescription", "entitystatuscode", "goodsandservicestax",
   "effectivefrom", "statecode", "postcode"}

\* C19: when the registry answered, Enrich returns the "no business data"
\* error exactly when the response holds none of the expected elements.
C19_ErrorIffNoFields ==
  (output.op = "Enrich" /\ ~input.resp.netErr) =>
    (output.err <=> ~ \E k \in 1..Len(Toks) : Toks[k].tag \in ExpectedTags)

\* C19 failing state: the response held status, tax registration,
\* effective-from date, state and postcode but no entity description;
\* Enrich wrote them to the Lead and returned the error.
C19_DataButError ==
  /\ output.op = "Enrich"
  /\ ~input.resp.netErr
  /\ \E k \in 1..Len(Toks) : Toks[k].tag = "statecode"
  /\ \E k \in 1..Len(Toks) : Toks[k].tag = "goodsandservicestax"
  /\ output.lead.IsGSTRegistered
  /\ output.lead.EntityStatus = "Active"
  /\ output.err

\* The entries of a list, as a set.
Range(sq) == {sq[k] : k \in 1..Len(sq)}

\* The rows the claim selects: old enough, tax-registered, neither public
\* company nor government, in the allow-list when states are given, and
\* listing a requested source when sources are given.
Selected(st, minAge, states, sources) ==
  {r \in st :
     /\ DateLE(r.registration_date, [y |-> Today.y - minAge, d |-> Today.d])
     /\ r.gst_registered
     /\ ~Contains(LowerSeq(r.entity_type), <<"public", "company">>)
     /\ ~Contains(LowerSeq(r.entity_type), <<"government">>)
     /\ states # <<>> => r.state \in Range(states)
     /\ sources # <<>> =>
          \E s \in Range(sources) :
            Contains(UpperSeq(r.sources), UpperSeq(s))}

\* C20: ExportCSV writes exactly the selected rows, each once, in
\* ascending order of registration date, and leaves the store as it was.
C20_ExportExactly ==
  output.op = "ExportCSV" =>
    /\ Range(output.rows)
         = Selected(store, input.minAge, input.states, input.sources)
    /\ NoDup(output.rows)
    /\ \A a, b \in 1..Len(output.rows) :
         a < b => DateLE(output.rows[a].registration_date,
                         output.rows[b].registration_date)
    /\ store = pre.store

\* C20 failing state: with the allow-list ["", "VIC"] a row whose state is
\* NSW was written.
C20_AllowListIgnored ==
  /\ output.op = "ExportCSV"
  /\ input.states = <<"", "VIC">>
  /\ \E k \in 1..Len(output.rows) : output.rows[k].state = "NSW"

\* C21: a second ExportCSV call with the same arguments, the store not
\* having been written in between, writes the same rows in the same order
\* as the first.
C21_ExportIdempotent ==
  (output.op = "ExportCSV" /\ exported.done) => exported.rows = output.rows

\* C21 failing state: two rows of equal registration date were written by
\* both calls, in one order by the first and in the other by the second.
C21_TieReordered ==
  /\ output.op = "ExportCSV" /\ exported.done
  /\ store = pre.store
  /\ Len(output.rows) = 2
  /\ output.rows[1].registration_date = output.rows[2].registration_date
  /\ exported.rows = <<output.rows[2], output.rows[1]>>

\* What a delete request asks for: the name, canonicalID, age bucket and
\* source substring it supplies.  An age that is not positive is no age
\* bucket, an empty source is no source substring.
Supplied(m) ==
  {k \in DOMAIN m \cap {"name", "abn", "age", "source"} :
     /\ k = "age" => (m[k].t = "int" /\ m[k].v > 0)
     /\ k = "source" => (m[k].t = "string" /\ m[k].v # <<>>)
     /\ k \in {"name", "abn"} => m[k].t = "string"}

Request == IF input.op = "delete" THEN input.flags ELSE input.filters

Failed ==
  IF output.op = "delete" THEN output.exit \in {"usage", "failed"}
  ELSE output.err

\* C22: a delete request that supplies no name, no canonicalID, no age
\* bucket and no source substring fails and leaves every row in place;
\* whenever rows are removed a predicate was supplied and every removed
\* row satisfies each supplied predicate; no row is added or changed.
C22_NoPredicateNoDelete ==
  (output.op \in {"delete", "DeleteLeadByFilters"}
     /\ (input.op = "delete" => input.answer = "yes")) =>
    /\ Supplied(Request) = {} => (Failed /\ store = pre.store)
    /\ store # pre.store => Supplied(Request) # {}
    /\ \A r \in pre.store \ store :
         \A k \in Supplied(Request) : Holds(r, k, Request, Today)
    /\ store \subseteq pre.store

\* C22 witness: the delete command was given -entity-type alone and
\* confirmed, on a table of two rows; it failed and both rows are there.
C22_Witness ==
  /\ output.op = "delete"
  /\ DOMAIN input.flags = {"entity-type"}
  /\ input.answer = "yes"
  /\ output.exit = "failed"
  /\ Cardinality(store) = 2
  /\ store = pre.store

\* The only candidate of the only source had a name and no identifier, was
\* enriched and passed the filter, and its upsert succeeded.
OneNamedCandidateSaved ==
  /\ nsrc = 1
  /\ fetched[1] = [n |-> 1, err |-> FALSE]
  /\ pre.cand.Name # "" /\ pre.cand.ABN = ""
  /\ outcome.kind = "saved" /\ outcome.enriched

\* The export holds a record with an identifier, a jurisdiction and the
\* name of source 1.
ExportHoldsRecord ==
  \E k \in 1..Len(exported.rows) :
    /\ exported.rows[k].abn # ""
    /\ exported.rows[k].state # ""
    /\ SourceTag(1) \in EntrySet(exported.rows[k].sources)

\* C23: in a run whose one source returns one named candidate without
\* identifier that the Enricher completes into an eligible lead, the
\* counters are found = 1, new = 1, selected = 1, and the export written
\* at the end of the run holds the record with its identifier, its
\* jurisdiction and the source's name.
C23_EndToEnd ==
  [](OneNamedCandidateSaved =>
       /\ stats.Found = 1 /\ stats.New = 1 /\ stats.Selected = 1
       /\ []((exported.done /\ ~exported.err) => ExportHoldsRecord))

\* C23 failing state: such a run ended with found = 1, new = 1,
\* selected = 1 and an export whose only record, of state VIC and listing
\* the source, has an empty identifier.
C23_ExportedWithoutId ==
  /\ mainpc = "done"
  /\ nsrc = 1 /\ fetched[1] = [n |-> 1, err |-> FALSE]
  /\ stats.Found = 1 /\ stats.New = 1 /\ stats.Selected = 1
  /\ exported.done /\ ~exported.err
  /\ Len(exported.rows) = 1
  /\ exported.rows[1].abn = ""
  /\ exported.rows[1].name = "Acme Pty Ltd"
  /\ exported.rows[1].state = "VIC"
  /\ exported.rows[1].sources = SourceTag(1)

C25_SourcesOnlyGrow ==
  [][\A r \in store :
       \E q \in store' :
         /\ q.abn = r.abn
         /\ EntrySet(r.sources) \subseteq EntrySet(q.sources)]_vars

\* C25 witness: a row that listed one source identifier was upserted with
\* another and lists both.
C25_Witness ==
  /\ outcome.kind = "saved"
  /\ Existed
  /\ Cardinality(EntrySet(RowOf(pre.store, outcome.lead.ABN).sources)) = 1
  /\ Cardinality(EntrySet(RowOf(store, outcome.lead.ABN).sources)) = 2
  /\ EntrySet(RowOf(pre.store, outcome.lead.ABN).sources)
       \subseteq EntrySet(RowOf(store, outcome.lead.ABN).sources)

\* C26: when ABR_GUID is not set or the output directory cannot be
\* created, main is at its exit and no worker was started, no Fetch and no
\* Enrich call was made, and the store and the export were not written.
C26_AbortBeforeWork ==
  (input.op = "main" /\ (~input.guidSet \/ ~input.mkdirOk)) =>
    /\ mainpc = "aborted"
    /\ spawned = 0
    /\ \A k \in SourceIds :
         wpc[k] = "idle" /\ fetched[k] = [n |-> 0, err |-> FALSE]
    /\ chan = <<>>
    /\ enrichCalls = 0
    /\ stats = ZeroStats
    /\ store = {}
    /\ ~exported.done

\* C26 witness: the directory was created and the database would open,
\* ABR_GUID alone was missing, and main is at its exit.
C26_Witness ==
  /\ input.op = "main"
  /\ input.mkdirOk /\ input.dbOk /\ ~input.guidSet
  /\ mainpc = "aborted"

\* The workers main started.
Workers == 1..nsrc

\* C27: no worker ever sends on the closed channel; while the channel is
\* closed every worker has sent its result and returned; and when the
\* consumer has left the loop of a run that started workers the channel is
\* closed and empty, every worker's result having been delivered.
C27_ClosedAfterWorkers ==
  /\ mainpc # "crashed"
  /\ \A k \in SourceIds : wpc[k] # "panic"
  /\ closed => (spawned = nsrc /\ \A k \in Workers : wpc[k] = "done")
  /\ (LoopOver /\ closerpc # "idle") => (closed /\ chan = <<>>)

\* C27 witness: both workers have returned and the channel is closed while
\* it still holds both results, the consumer having taken none.
C27_Witness ==
  /\ nsrc = 2
  /\ closed
  /\ Len(chan) = 2
  /\ mainpc = "recv"
  /\ cur = NoResult

\* The results of worker k in the channel's buffer.
InChan(k) == {i \in 1..Len(chan) : chan[i].source = k}

\* C28: the buffer never holds more results than there are workers; a
\* worker about to send always finds room (or the program has a closed
\* channel, which C27 excludes); the buffer holds at most one result of a
\* worker, and none of a worker that has not sent yet.
C28_SendNeverBlocks ==
  /\ Len(chan) <= nsrc
  /\ \A k \in SourceIds : wpc[k] = "send" => Len(chan) < nsrc
  /\ \A k \in SourceIds :
       /\ Cardinality(InChan(k)) <= 1
       /\ wpc[k] \in {"idle", "fetch", "send"} => InChan(k) = {}

\* C28 witness: the consumer has not taken anything, one worker's result
\* fills half of the buffer and the other worker is about to send.
C28_Witness ==
  /\ nsrc = 2
  /\ Len(chan) = 1
  /\ cur = NoResult
  /\ \E k \in Workers : wpc[k] = "send"
  /\ mainpc \in {"spawn", "recv"}

\* C29: a step that changes the leads table is a step of main in the body
\* of the consolidation loop and changes no worker, closer or channel
\* state; the export is written by main after the loop.
C29_StoreOwnedByConsumer ==
  [][/\ store' # store =>
          (mainpc = "lead" /\ UNCHANGED <<wpc, fetched, wg, closerpc,
                                          closed, chan>>)
     /\ exported' # exported =>
          (mainpc = "export" /\ UNCHANGED <<wpc, fetched, wg, closerpc,
                                            closed, chan, store>>)]_vars

\* C29 witness: the table holds a row while a worker is still fetching.
C29_Witness ==
  /\ store # {}
  /\ \E k \in Workers : wpc[k] = "fetch"

\* What the last iteration added to counter f.
Added(f) == stats[f] - pre.stats[f]

\* C30: an iteration adds one to Found, one to exactly one of Skipped,
\* Error and Selected, and to New or Updated exactly what it adds to
\* Selected; a failed upsert adds to Error and not to Selected; hence
\* always, and so at the end of the run, Found = Selected + Skipped + Error
\* and Selected = New + Updated.
C30_CountersAddUp ==
  /\ outcome.kind # "none" =>
       /\ Added("Found") = 1
       /\ \A f \in DOMAIN stats : Added(f) \in {0, 1}
       /\ Added("Skipped") + Added("Error") + Added("Selected") = 1
       /\ Added("New") + Added("Updated") = Added("Selected")
       /\ outcome.kind = "saveErr" =>
            (Added("Error") = 1 /\ Added("Selected") = 0)
  /\ stats.Found = stats.Selected + stats.Skipped + stats.Error
  /\ stats.Selected = stats.New + stats.Updated

\* C30 witness: after a lead was selected as new, the upsert of the next
\* lead failed: Found = 2, Selected = New = 1, Error = 1.
C30_Witness ==
  /\ outcome.kind = "saveErr"
  /\ stats = [ZeroStats EXCEPT !.Found = 2, !.Selected = 1, !.New = 1,
                               !.Error = 1]

\* C31: a candidate with an empty name is counted in Found and in Skipped
\* and nothing else happens to it: after its iteration the counters are the
\* ones before it with Found and Skipped one higher, GetLeadByName was not
\* called, Enrich was not called (its ABN, if it has one, is not used), and
\* the leads table is the one before the iteration.
C31_EmptyNameSkipped ==
  (outcome.kind # "none" /\ pre.cand.Name = "") =>
    /\ outcome.kind = "noname"
    /\ stats = incr(incr(pre.stats, "Found", 1), "Skipped", 1)
    /\ ~outcome.looked
    /\ ~outcome.hit
    /\ ~outcome.enriched
    /\ enrichCalls = pre.enrichCalls
    /\ store = pre.store

\* An empty-name candidate that carries an ABN has been processed while the
\* table held rows and after other candidates had been enriched.
C31_Witness ==
  /\ outcome.kind = "noname"
  /\ pre.cand.Name = ""
  /\ pre.cand.ABN # ""
  /\ pre.store # {}
  /\ pre.enrichCalls > 0
  /\ stats.Skipped = pre.stats.Skipped + 1

====
